---- MODULE Spec2Model ----
(***************************************************************************)
(* AICodeReviewPro: the review endpoint (server/routes.ts, server/openai.ts *)
(* and the schema in db/schema.ts), the review page (client/src/pages/      *)
(* home.tsx), the suggestion parser and the review display (client/src/    *)
(* components/review-display.tsx, file-diff-view.tsx) and the upload        *)
(* component (client/src/components/file-upload.tsx), as state machines.    *)
(*                                                                          *)
(* JavaScript values are modelled by strings and records: Undefined is a    *)
(* missing property, JTrue / JFalse are the booleans, a files value is a    *)
(* record telling whether it is missing, a non-array or an array.           *)
(***************************************************************************)
EXTENDS Integers, Sequences, FiniteSets, TLC

VARIABLES
    reviews,        \* rows of table reviews
    reviewFiles,    \* rows of table review_files
    reviewResults,  \* rows of table review_results
    idSeq,          \* the serial sequences of the three tables
    now,            \* the database clock behind defaultNow()
    req,            \* the last request the server received
    resp,           \* the answer to it
    sysmsg,         \* the system message sent to the model for it, or NoCall
    completion,     \* what the model answered to that message, or NoCompletion
    home,           \* the useState values of the page Home
    reviewMutation, \* the status of the page's useMutation
    inFlight,       \* the POST /api/review requests sent and not yet answered
    event,          \* the handler the page ran last
    toast,          \* the toast that handler showed, or NoToast
    sent,           \* the request body that handler sent, or NothingSent
    parts,          \* a suggestion of the model, as the pieces of markdown it is made of
    parsed,         \* parseSuggestion of that suggestion, or NotParsed
    extracted,      \* extractCodeFromMarkdown of that suggestion, or NotParsed
    selectedFiles,  \* the useState selectedFiles of FileUpload, in the order of its keys
    totalSize,      \* the useState totalSize of FileUpload
    allowDirectories, \* the prop allowDirectories of the mounted FileUpload
    delivered,      \* the argument of the last onFilesSelected
    offered,        \* what the last drop or selection offered
    uploadToast,    \* the toast FileUpload showed last, or NoToast
    batchErrors,    \* hasShownSizeError and the toasts of processFile in the last handleFiles
    mounted,        \* whether a ReviewDisplay is on the page
    content,        \* the prop content of the ReviewDisplay
    view,           \* what the ReviewDisplay renders for it
    appliedChanges, \* the useState appliedChanges of the ReviewDisplay
    clicked,        \* the changes whose Apply button was used last
    handed,         \* the arguments of the calls of onApplyChange made for it
    reading,        \* the file batches handleFiles is reading
    instance,       \* the number of the FileUpload mounted, counted from the first
    sinceSwitch     \* what happened since the input mode changed last

serverVars == <<reviews, reviewFiles, reviewResults, idSeq, now, req, resp, sysmsg, completion>>

pageVars == <<home, reviewMutation, inFlight, event, toast, sent>>

parseVars == <<parts, parsed, extracted>>

uploadVars ==
    <<selectedFiles, totalSize, allowDirectories, delivered, offered, uploadToast, batchErrors>>

displayVars == <<mounted, content, view, appliedChanges, clicked, handed>>

switchVars == <<reading, instance, sinceSwitch>>

vars == <<serverVars, pageVars, parseVars, uploadVars, displayVars, switchVars>>

----------------------------------------------------------------------------
(* Bounds *)

MaxReviews == 2     \* POST /api/review with save is taken while fewer rows exist
MaxInFlight == 2    \* handleReview is run while fewer requests are in flight
MaxParts == 4       \* a suggestion is made of at most so many pieces

----------------------------------------------------------------------------
(* JavaScript values *)

Undefined == "<undefined>"
JTrue == "<true>"
JFalse == "<false>"
NoCall == <<>>
NoCompletion == [kind |-> "none"]
NoBody == [kind |-> "none"]
JUndefined == [t |-> "undefined"]
JNull == [t |-> "null"]
JArray(items) == [t |-> "array", items |-> items]

\* !v of JavaScript, on the values the model uses
Falsy(v) == v \in {Undefined, JFalse, ""}

\* const { description = "", mode = "general", ... } = req.body
Default(v, d) == IF v = Undefined THEN d ELSE v

----------------------------------------------------------------------------
(* server/openai.ts *)

ReviewModes == {"general", "performance", "security", "clean-code", "architecture"}

REVIEW_PROMPTS ==
    [m \in ReviewModes |->
        CASE m = "general"      -> "You are an expert code reviewer analyzing code."
          [] m = "performance"  -> "You are a performance optimization expert."
          [] m = "security"     -> "You are a security expert."
          [] m = "clean-code"   -> "You are a clean code expert."
          [] m = "architecture" -> "You are a software architect."]

\* PromptOf ignoring the mode
PromptOf_general(mode) == REVIEW_PROMPTS["general"]

\* REVIEW_PROMPTS[mode]: a property lookup, undefined for a key the object lacks
PromptOf(mode) ==
    IF mode \in DOMAIN REVIEW_PROMPTS THEN REVIEW_PROMPTS[mode] ELSE Undefined

TextExtensions ==
    {"js", "ts", "jsx", "tsx", "py", "java", "cpp", "c", "h", "cs", "php", "rb",
     "swift", "go", "rs", "html", "css", "scss", "json", "yml", "yaml", "md", "txt"}

\* String.prototype.toLowerCase on the extensions in use
toLowerCase(s) ==
    CASE s = "TSX" -> "tsx"
      [] s = "PNG" -> "png"
      [] OTHER -> s

\* A path is the sequence of its dot-separated parts: path.split('.')
Ext(path) == toLowerCase(path[Len(path)])

isTextFile(file) == Ext(file.path) = "" \/ Ext(file.path) \in TextExtensions

\* createFileContext: the text files, one "File: ..." section each, in order
createFileContext(files) == SelectSeq(files, isTextFile)

\* The template literal of analyzeCode: prompt, fixed instructions, language,
\* number of files, file context
SystemMessage(mode, language, files) ==
    <<PromptOf(mode), "Analyze the code and respond with a JSON object",
      language, Len(files), createFileContext(files)>>

\* JSON.parse of the content of the completion: null is read as the text "null"
JSONparse(text) ==
    CASE text.kind = "json" -> [ok |-> TRUE, value |-> text.value]
      [] text.kind = "null" -> [ok |-> TRUE, value |-> JNull]
      [] text.kind = "blank" -> [ok |-> FALSE, message |-> <<"Unexpected end of JSON input">>]
      [] OTHER -> [ok |-> FALSE, message |-> <<"Unexpected token in JSON">>]

\* analyzeCode without its test of the content, as analyzeCode(code) was
analyzeCode_noContentTest(files, mode, language, out) ==
    LET msg == <<PromptOf(mode), "Analyze the code and respond with a JSON object",
                 language, Len(files), SelectSeq(files, isTextFile)>> IN
    IF out.kind = "reject"
    THEN [threw |-> TRUE, sysmsg |-> msg,
          message |-> <<"Failed to analyze code: ">> \o out.message]
    ELSE IF out.kind \in {"json", "null"}
    THEN [threw |-> FALSE, sysmsg |-> msg, value |-> out.value]
    ELSE [threw |-> TRUE, sysmsg |-> msg,
          message |-> <<"Failed to analyze code: ">> \o <<"Unexpected token in JSON">>]

\* analyzeCode(files, mode, language) against a model that answers out:
\* out.kind is "reject" (the call fails), "null" or "blank" (no content), "text"
\* (content that is not JSON) or "json" (content that is a JSON object, out.value)
analyzeCode(files, mode, language, out) ==
    LET msg == SystemMessage(mode, language, files) IN
    IF out.kind = "reject"
    THEN [threw |-> TRUE, sysmsg |-> msg,
          message |-> <<"Failed to analyze code: ">> \o out.message]
    ELSE IF out.kind \in {"null", "blank"}
    THEN [threw |-> TRUE, sysmsg |-> msg,
          message |-> <<"Failed to analyze code: ">>
                        \o <<"No response content received from OpenAI">>]
    ELSE LET p == JSONparse(out) IN
         IF p.ok
         THEN [threw |-> FALSE, sysmsg |-> msg, value |-> p.value]
         ELSE [threw |-> TRUE, sysmsg |-> msg,
               message |-> <<"Failed to analyze code: ">> \o p.message]

----------------------------------------------------------------------------
(* db/schema.ts *)

ResultFields == {"suggestions", "improvements", "security", "dependencies", "architecture"}

\* A column declared notNull() without a default refuses undefined and null
NotNullViolated(v) == v.t \in {"undefined", "null"}

\* analysis.suggestions etc.: a property read, undefined when the object lacks it
Prop(obj, f) == IF f \in DOMAIN obj THEN obj[f] ELSE JUndefined

\* db.insert(reviews).values({name, description, language, mode}).returning()
ReviewRow(id, name, description, language, mode) ==
    [id |-> id, name |-> name, description |-> description,
     language |-> language, mode |-> mode, createdAt |-> now]

\* FileRows referencing the id after that of the review
FileRows_nextReview(reviewId, files) ==
    { [id |-> idSeq.reviewFiles + i, reviewId |-> reviewId + 1,
       path |-> files[i].path, content |-> files[i].content, createdAt |-> now]
      : i \in 1..Len(files) }

\* files.map(file => ({reviewId: review.id, path: file.path, content: file.content}))
FileRows(reviewId, files) ==
    { [id |-> idSeq.reviewFiles + i, reviewId |-> reviewId,
       path |-> files[i].path, content |-> files[i].content, createdAt |-> now]
      : i \in 1..Len(files) }

\* ResultRow with two columns exchanged
ResultRow_exchanged(reviewId, analysis) ==
    [id |-> idSeq.reviewResults + 1, reviewId |-> reviewId,
     suggestions |-> Prop(analysis, "improvements"),
     improvements |-> Prop(analysis, "suggestions"),
     security |-> Prop(analysis, "security"),
     dependencies |-> Prop(analysis, "dependencies"),
     architecture |-> Prop(analysis, "architecture"),
     createdAt |-> now]

\* db.insert(reviewResults).values({reviewId: review.id, suggestions: ..., ...})
ResultRow(reviewId, analysis) ==
    [id |-> idSeq.reviewResults + 1, reviewId |-> reviewId,
     suggestions |-> Prop(analysis, "suggestions"),
     improvements |-> Prop(analysis, "improvements"),
     security |-> Prop(analysis, "security"),
     dependencies |-> Prop(analysis, "dependencies"),
     architecture |-> Prop(analysis, "architecture"),
     createdAt |-> now]

\* db.insert(table).values(rows) replacing the rows of the table
Insert_replacing(table, rows) == rows

\* db.insert(table).values(rows): the table with the new rows
Insert(table, rows) == table \cup rows

\* A review with its files and its results: with: {files: true, results: true}
WithRelations(r, fs, xs) ==
    [found |-> TRUE, review |-> r,
     files |-> {f \in fs : f.reviewId = r.id},
     results |-> {x \in xs : x.reviewId = r.id}]

\* findMany with the oldest review first
findMany_ascending(rs, fs, xs) ==
    LET n == Cardinality(rs)
        ordered == CHOOSE s \in [1..n -> rs] :
                      /\ \A r \in rs : \E i \in 1..n : s[i] = r
                      /\ \A i, j \in 1..n : i < j => s[i].createdAt <= s[j].createdAt
    IN [i \in 1..n |-> WithRelations(ordered[i], fs, xs)]

\* db.query.reviews.findMany({with: {files, results}, orderBy: desc(createdAt)})
\* on the tables rs, fs, xs
findMany(rs, fs, xs) ==
    LET n == Cardinality(rs)
        ordered == CHOOSE s \in [1..n -> rs] :
                      /\ \A r \in rs : \E i \in 1..n : s[i] = r
                      /\ \A i, j \in 1..n : i < j => s[i].createdAt >= s[j].createdAt
    IN [i \in 1..n |-> WithRelations(ordered[i], fs, xs)]

\* db.query.reviews.findFirst({where: eq(reviews.id, id), with: {files, results}})
\* on the tables rs, fs, xs
findFirst(id, rs, fs, xs) ==
    IF \E r \in rs : r.id = id
    THEN LET r == CHOOSE r \in rs : r.id = id IN
         WithRelations(r, fs, xs)
    ELSE [found |-> FALSE]

----------------------------------------------------------------------------
(* server/routes.ts: POST /api/review *)

\* FilesRejected without its test of the length
FilesRejected_noLength(files) ==
    \/ files.kind = "absent"
    \/ files.kind # "array"

\* !files || !Array.isArray(files) || files.length === 0
FilesRejected(files) ==
    \/ files.kind = "absent"
    \/ files.kind # "array"
    \/ Len(files.items) = 0

\* !name
NameRejected(name) == Falsy(name)

\* ShouldSave ignoring the flag
ShouldSave_always(save) == TRUE

\* if (save)
ShouldSave(save) == ~Falsy(save)

\* A text is the sequence of its parts; a || b of JavaScript on texts
OrElse(a, b) == IF a = <<>> THEN b ELSE a

\* The error of the database for a null in a notNull() column
NotNullError == <<"null value violates not-null constraint">>

Answer(route, status, message, body) ==
    [route |-> route, status |-> status, message |-> message, body |-> body]

\* The handler of POST /api/review on request body r, the model answering out
PostReview(r, out) ==
    LET files == r.files
        name == r.name
        description == Default(r.description, "")
        mode == Default(r.mode, "general")
        language == Default(r.language, "javascript")
        save == Default(r.save, JFalse)
        route == "POST /api/review"
    IN
    /\ r.variant = "files"
    /\ ShouldSave(save) => Cardinality(reviews) < MaxReviews
    /\ req' = r
    /\ IF FilesRejected(files)
       THEN /\ resp' = Answer(route, 400, <<"At least one file is required for review">>, NoBody)
            /\ sysmsg' = NoCall
            /\ completion' = NoCompletion
            /\ UNCHANGED <<reviews, reviewFiles, reviewResults, idSeq, now>>
       ELSE IF NameRejected(name)
       THEN /\ resp' = Answer(route, 400, <<"Review name is required">>, NoBody)
            /\ sysmsg' = NoCall
            /\ completion' = NoCompletion
            /\ UNCHANGED <<reviews, reviewFiles, reviewResults, idSeq, now>>
       ELSE LET a == analyzeCode(files.items, mode, language, out) IN
            /\ sysmsg' = a.sysmsg
            /\ completion' = out
            /\ IF a.threw
               THEN /\ resp' = Answer(route, 500, OrElse(a.message, <<"Failed to analyze code">>), NoBody)
                    /\ UNCHANGED <<reviews, reviewFiles, reviewResults, idSeq, now>>
               ELSE IF ~ShouldSave(save)
               THEN /\ resp' = Answer(route, 200, <<>>, [kind |-> "json", value |-> a.value])
                    /\ UNCHANGED <<reviews, reviewFiles, reviewResults, idSeq, now>>
               ELSE LET id == idSeq.reviews + 1
                        row == ResultRow(id, a.value)
                        bad == \E f \in ResultFields : NotNullViolated(row[f])
                    IN
                    \* the three inserts run one after the other, each committed
                    \* on its own: a failing third insert leaves the first two
                    /\ reviews' = Insert(reviews, {ReviewRow(id, name, description, language, mode)})
                    /\ reviewFiles' = Insert(reviewFiles, FileRows(id, files.items))
                    /\ now' = now + 1
                    /\ IF bad
                       THEN /\ reviewResults' = reviewResults
                            /\ idSeq' = [idSeq EXCEPT !.reviews = id,
                                            !.reviewFiles = @ + Len(files.items)]
                            /\ resp' = Answer(route, 500,
                                        OrElse(NotNullError, <<"Failed to analyze code">>), NoBody)
                       ELSE /\ reviewResults' = Insert(reviewResults, {row})
                            /\ idSeq' = [idSeq EXCEPT !.reviews = id,
                                            !.reviewFiles = @ + Len(files.items),
                                            !.reviewResults = @ + 1]
                            /\ resp' = Answer(route, 200, <<>>, [kind |-> "json", value |-> a.value])

\* The handler of GET /api/reviews
GetReviews ==
    /\ req' = [variant |-> "list"]
    /\ sysmsg' = NoCall
    /\ completion' = NoCompletion
    /\ resp' = Answer("GET /api/reviews", 200, <<>>,
                      [kind |-> "reviews",
                       value |-> findMany(reviews, reviewFiles, reviewResults)])
    /\ UNCHANGED <<reviews, reviewFiles, reviewResults, idSeq, now>>

\* parseInt(req.params.id): the integer the parameter starts with, NaN when it
\* starts with none (p.num = -1)
parseInt(p) == IF p.num < 0 THEN [nan |-> TRUE, n |-> 0] ELSE [nan |-> FALSE, n |-> p.num]

\* The error of the database for NaN compared with the integer column id
NaNError == <<"invalid input syntax for type integer: \"NaN\"">>

\* The handler of GET /api/reviews/:id
GetReview(p) ==
    LET route == "GET /api/reviews/:id"
        id == parseInt(p)
        q == findFirst(id.n, reviews, reviewFiles, reviewResults)
    IN
    /\ req' = [variant |-> "get", id |-> p]
    /\ sysmsg' = NoCall
    /\ completion' = NoCompletion
    /\ resp' = IF id.nan
               THEN Answer(route, 500, OrElse(NaNError, <<"Failed to fetch review">>), NoBody)
               ELSE IF q.found
               THEN Answer(route, 200, <<>>, [kind |-> "review", value |-> q])
               ELSE Answer(route, 404, <<"Review not found">>, NoBody)
    /\ UNCHANGED <<reviews, reviewFiles, reviewResults, idSeq, now>>

\* server/openai.ts before review modes: analyzeCode(code), with no test of the
\* content before JSON.parse
analyzeCodeLegacy(code, out) ==
    LET msg == <<"You are an expert code reviewer.", code>> IN
    IF out.kind = "reject"
    THEN [threw |-> TRUE, sysmsg |-> msg,
          message |-> <<"Failed to analyze code: ">> \o out.message]
    ELSE LET p == JSONparse(out) IN
         IF p.ok
         THEN [threw |-> FALSE, sysmsg |-> msg, value |-> p.value]
         ELSE [threw |-> TRUE, sysmsg |-> msg,
               message |-> <<"Failed to analyze code: ">> \o p.message]

\* !code || typeof code !== "string"
CodeRejected(code) == code.kind = "absent" \/ code.kind # "string" \/ code.text = ""

\* The handler of POST /api/review of the code-string variant of routes.ts
PostReviewCode(r, out) ==
    LET route == "POST /api/review" IN
    /\ r.variant = "code"
    /\ req' = r
    /\ UNCHANGED <<reviews, reviewFiles, reviewResults, idSeq, now>>
    /\ IF CodeRejected(r.code)
       THEN /\ resp' = Answer(route, 400, <<"Code is required and must be a string">>, NoBody)
            /\ sysmsg' = NoCall
            /\ completion' = NoCompletion
       ELSE LET a == analyzeCodeLegacy(r.code.text, out) IN
            /\ sysmsg' = a.sysmsg
            /\ completion' = out
            /\ resp' = IF a.threw
                       THEN Answer(route, 500, OrElse(a.message, <<"Failed to analyze code">>), NoBody)
                       ELSE Answer(route, 200, <<>>, [kind |-> "json", value |-> a.value])

----------------------------------------------------------------------------
(* The requests and the model answers the server is driven with *)

F1 == [path |-> <<"code", "txt">>, content |-> "let a = 1"]
F2 == [path |-> <<"logo", "PNG">>, content |-> "binary"]

FilesValues ==
    { [kind |-> "absent", items |-> <<>>],
      [kind |-> "string", items |-> <<>>],
      [kind |-> "array", items |-> <<>>],
      [kind |-> "array", items |-> <<F1>>],
      [kind |-> "array", items |-> <<F1, F2>>] }

CodeValues ==
    { [kind |-> "absent", text |-> ""],
      [kind |-> "number", text |-> ""],
      [kind |-> "string", text |-> ""],
      [kind |-> "string", text |-> "let a = 1"] }

NoCode == [kind |-> "absent", text |-> ""]
NoFiles == [kind |-> "absent", items |-> <<>>]

Request(files, name, description, mode, language, save) ==
    [variant |-> "files", files |-> files, code |-> NoCode, name |-> name,
     description |-> description, mode |-> mode, language |-> language, save |-> save]

OneFile == [kind |-> "array", items |-> <<F1>>]
TwoFiles == [kind |-> "array", items |-> <<F1, F2>>]

\* Every files value with every name and save flag, the optional fields missing
ValidationRequests ==
    { Request(f, n, Undefined, Undefined, Undefined, s) :
        f \in FilesValues, n \in {Undefined, "", "Review 1"}, s \in {Undefined, JFalse, JTrue} }

\* Every mode, and a value outside the enum
ModeRequests ==
    { Request(OneFile, "Review 1", Undefined, m, Undefined, Undefined) :
        m \in ReviewModes \cup {"bogus"} }

\* Every optional field given
DescribedRequests ==
    { Request(TwoFiles, "Review 2", "first pass", "security", "python", s) :
        s \in {Undefined, JFalse, JTrue} }

ReviewRequests == ValidationRequests \cup ModeRequests \cup DescribedRequests

CodeRequests ==
    [variant : {"code"}, files : {NoFiles}, code : CodeValues,
     name : {Undefined}, description : {Undefined}, mode : {Undefined},
     language : {Undefined}, save : {Undefined}]

\* A complete analysis, and one in the three-field format of the first prompt
FullAnalysis ==
    [f \in ResultFields |->
        CASE f = "suggestions"  -> JArray(<<"s1", "s2">>)
          [] f = "improvements" -> JArray(<<"i1">>)
          [] f = "security"     -> JArray(<<>>)
          [] f = "dependencies" -> JArray(<<"d1">>)
          [] f = "architecture" -> JArray(<<"a1">>)]

PartialAnalysis ==
    [f \in {"suggestions", "improvements", "security"} |-> FullAnalysis[f]]

ModelAnswers ==
    { [kind |-> "reject", message |-> <<"429 rate limit">>, value |-> JNull],
      [kind |-> "null", message |-> <<>>, value |-> JNull],
      [kind |-> "blank", message |-> <<>>, value |-> JNull],
      [kind |-> "text", message |-> <<>>, value |-> JNull],
      [kind |-> "json", message |-> <<>>, value |-> FullAnalysis],
      [kind |-> "json", message |-> <<>>, value |-> PartialAnalysis] }

\* req.params.id: the number it starts with (-1: none) and what follows it
IdParams == { [num |-> n, rest |-> t] : n \in -1..(MaxReviews + 1), t \in {"", "abc"} }

NoRequest == [variant |-> "none"]

ServerInit ==
    /\ reviews = {}
    /\ reviewFiles = {}
    /\ reviewResults = {}
    /\ idSeq = [reviews |-> 0, reviewFiles |-> 0, reviewResults |-> 0]
    /\ now = 0
    /\ req = NoRequest
    /\ resp = Answer("none", 0, <<>>, NoBody)
    /\ sysmsg = NoCall
    /\ completion = NoCompletion

----------------------------------------------------------------------------
(* client/src/pages/home.tsx *)

\* A text is the sequence of its characters
IsSpace(c) == c \in {" ", "\n"}

\* String.prototype.trim: the text without the white space at its two ends
RECURSIVE trimStart(_)
trimStart(s) ==
    IF s # <<>> /\ IsSpace(Head(s)) THEN trimStart(Tail(s)) ELSE s

RECURSIVE trimEnd(_)
trimEnd(s) ==
    IF s # <<>> /\ IsSpace(s[Len(s)]) THEN trimEnd(SubSeq(s, 1, Len(s) - 1)) ELSE s

trim(s) == trimEnd(trimStart(s))

NoToast == [variant |-> "none", description |-> ""]
ErrorToast(d) == [variant |-> "destructive", description |-> d]
SuccessToast(d) == [variant |-> "default", description |-> d]
NothingSent == [sends |-> FALSE]

\* handleReview testing the texts without trim
handleReview_noTrim(h) ==
    IF h.inputMode = "paste" /\ h.pastedCode = <<>>
    THEN [toast |-> ErrorToast("Please enter some code to review"), sent |-> NothingSent]
    ELSE IF h.inputMode \in {"files", "project"} /\ Len(h.files) = 0
    THEN [toast |-> ErrorToast("Please select some files to review"), sent |-> NothingSent]
    ELSE IF h.reviewName = <<>>
    THEN [toast |-> ErrorToast("Please enter a name for this review"), sent |-> NothingSent]
    ELSE [toast |-> NoToast,
          sent |-> [sends |-> TRUE,
                    files |-> IF h.inputMode = "paste"
                              THEN <<[path |-> <<"code", "txt">>, content |-> h.pastedCode]>>
                              ELSE h.files,
                    name |-> h.reviewName,
                    description |-> h.description,
                    mode |-> h.mode,
                    language |-> h.language,
                    save |-> h.saveReview]]

\* handleReview on the page state h: the toast it shows and the argument of the
\* reviewMutation.mutate it runs, completed by mutationFn to the request body
handleReview(h) ==
    IF h.inputMode = "paste" /\ trim(h.pastedCode) = <<>>
    THEN [toast |-> ErrorToast("Please enter some code to review"), sent |-> NothingSent]
    ELSE IF h.inputMode \in {"files", "project"} /\ Len(h.files) = 0
    THEN [toast |-> ErrorToast("Please select some files to review"), sent |-> NothingSent]
    ELSE IF trim(h.reviewName) = <<>>
    THEN [toast |-> ErrorToast("Please enter a name for this review"), sent |-> NothingSent]
    ELSE [toast |-> NoToast,
          sent |-> [sends |-> TRUE,
                    files |-> IF h.inputMode = "paste"
                              THEN <<[path |-> <<"code", "txt">>, content |-> h.pastedCode]>>
                              ELSE h.files,
                    name |-> h.reviewName,
                    description |-> h.description,
                    mode |-> h.mode,
                    language |-> h.language,
                    save |-> h.saveReview]]

\* ReviewDisabled without reviewMutation.isPending
ReviewDisabled_noPending(h, m) ==
    \/ trim(h.reviewName) = <<>>
    \/ IF h.inputMode = "paste" THEN trim(h.pastedCode) = <<>> ELSE Len(h.files) = 0

\* The disabled attribute of the Review Code button
ReviewDisabled(h, m) ==
    \/ m = "pending"
    \/ trim(h.reviewName) = <<>>
    \/ IF h.inputMode = "paste" THEN trim(h.pastedCode) = <<>> ELSE Len(h.files) = 0

\* A run of handleReview: mutate() sends the request and makes the mutation pending
RunHandleReview ==
    LET r == handleReview(home) IN
    /\ inFlight < MaxInFlight
    /\ event' = "handleReview"
    /\ toast' = r.toast
    /\ sent' = r.sent
    /\ IF r.sent.sends
       THEN inFlight' = inFlight + 1 /\ reviewMutation' = "pending"
       ELSE UNCHANGED <<inFlight, reviewMutation>>
    /\ UNCHANGED home

\* A click on the Review Code button, which a disabled button does not take
ClickReview == ~ReviewDisabled(home, reviewMutation) /\ RunHandleReview

\* The answer to a request arrives: onSuccess or onError of the mutation. The
\* status follows the request mutate() sent last.
Settle(latest, ok) ==
    /\ inFlight > 0
    /\ IF latest THEN reviewMutation = "pending"
                 ELSE inFlight > (IF reviewMutation = "pending" THEN 1 ELSE 0)
    /\ inFlight' = inFlight - 1
    /\ reviewMutation' = IF latest THEN (IF ok THEN "success" ELSE "error") ELSE reviewMutation
    /\ event' = "settled"
    /\ toast' = IF ok
                THEN (IF home.saveReview THEN SuccessToast("Review saved successfully") ELSE NoToast)
                ELSE ErrorToast("Failed to get code review")
    /\ sent' = NothingSent
    /\ UNCHANGED home

\* A state setter run by an input of the page
SetState(h) ==
    /\ home' = h
    /\ event' = "input"
    /\ toast' = NoToast
    /\ sent' = NothingSent
    /\ UNCHANGED <<inFlight, reviewMutation>>

PastedCodes == {<<>>, <<" ", "\n">>, <<"x">>}
ReviewNames == {<<>>, <<" ">>, <<"n">>}
FileLists == {<<>>, <<F1>>, <<F1, F2>>}

\* The CodeEditor of the paste tab
setPastedCode(v) == home.inputMode = "paste" /\ SetState([home EXCEPT !.pastedCode = v])

\* onFilesSelected of the FileUpload of the files and project tabs
setFiles(v) == home.inputMode \in {"files", "project"} /\ SetState([home EXCEPT !.files = v])

setReviewName(v) == SetState([home EXCEPT !.reviewName = v])
setDescription(v) == SetState([home EXCEPT !.description = v])
setLanguage(v) == SetState([home EXCEPT !.language = v])
setMode(v) == SetState([home EXCEPT !.mode = v])
setSaveReview == SetState([home EXCEPT !.saveReview = ~home.saveReview])

\* handleInputModeChange leaving the file list as it is
handleInputModeChange_keepsFiles(mode) ==
    /\ home' = [home EXCEPT !.inputMode = mode, !.pastedCode = <<>>]
    /\ event' = "handleInputModeChange"
    /\ toast' = NoToast
    /\ sent' = NothingSent
    /\ UNCHANGED <<inFlight, reviewMutation>>

\* onValueChange of the Tabs: setInputMode(mode), setPastedCode(""), setFiles([])
handleInputModeChange(mode) ==
    /\ home' = [home EXCEPT !.inputMode = mode, !.pastedCode = <<>>, !.files = <<>>]
    /\ event' = "handleInputModeChange"
    /\ toast' = NoToast
    /\ sent' = NothingSent
    /\ UNCHANGED <<inFlight, reviewMutation>>

PageInit ==
    /\ home = [inputMode |-> "paste", files |-> <<>>, pastedCode |-> <<>>,
               reviewName |-> <<>>, description |-> <<>>, language |-> "javascript",
               mode |-> "general", saveReview |-> FALSE]
    /\ reviewMutation = "idle"
    /\ inFlight = 0
    /\ event = "none"
    /\ toast = NoToast
    /\ sent = NothingSent

Inputs ==
    \/ \E v \in PastedCodes : setPastedCode(v)
    \/ \E v \in FileLists : setFiles(v)
    \/ \E v \in ReviewNames : setReviewName(v)
    \/ \E v \in {<<>>, <<"d">>} : setDescription(v)
    \/ \E v \in {"javascript", "python"} : setLanguage(v)
    \/ \E v \in {"general", "security"} : setMode(v)
    \/ setSaveReview
    \/ \E m \in {"paste", "files", "project"} : handleInputModeChange(m)

----------------------------------------------------------------------------
(* client/src/components/review-display.tsx: parseSuggestion; home.tsx:      *)
(* extractCodeFromMarkdown. A suggestion is a text: a sequence whose         *)
(* elements are a backtick, a quote, a dot, a space, a newline or a word of  *)
(* letters.                                                                  *)

\* The backtick, which no string of this module can hold
Tick == "<backtick>"

\* One of the three quotes of the class of characters that opens and closes a
\* file path: single quote, double quote, backtick
IsQuote(c) == c \in {"'", "\"", Tick}

\* \w and [a-zA-Z]: the words of the texts are made of letters
IsWord(c) == ~IsQuote(c) /\ ~IsSpace(c) /\ c # "."

\* Three backticks at position i of s
FenceAt(s, i) == i + 2 <= Len(s) /\ s[i] = Tick /\ s[i + 1] = Tick /\ s[i + 2] = Tick

\* The first fence of s at or after position i, 0 if there is none
RECURSIVE NextFence(_, _)
NextFence(s, i) ==
    IF i + 2 > Len(s) THEN 0
    ELSE IF FenceAt(s, i) THEN i
    ELSE NextFence(s, i + 1)

\* The first position at or after i that (?:\w+)? and \s* do not take
RECURSIVE SkipWords(_, _)
SkipWords(s, i) == IF i <= Len(s) /\ IsWord(s[i]) THEN SkipWords(s, i + 1) ELSE i

RECURSIVE SkipSpaces(_, _)
SkipSpaces(s, i) == IF i <= Len(s) /\ IsSpace(s[i]) THEN SkipSpaces(s, i + 1) ELSE i

\* [...suggestion.matchAll(codeBlockRegex)].map(match => match[1].trim()): a
\* fence, (?:\w+)?, \s*, the group up to the next fence,
\* matching from position i on
RECURSIVE codeBlocksFrom(_, _)
codeBlocksFrom(s, i) ==
    LET open == NextFence(s, i) IN
    IF open = 0 THEN <<>>
    ELSE LET start == SkipSpaces(s, SkipWords(s, open + 3))
             close == NextFence(s, start)
         IN IF close = 0 THEN <<>>
            ELSE <<trim(SubSeq(s, start, close - 1))>> \o codeBlocksFrom(s, close + 3)

codeBlocks(s) == codeBlocksFrom(s, 1)

\* The first quote of s after position i, 0 if there is none
RECURSIVE NextQuote(_, _)
NextQuote(s, i) ==
    IF i + 1 > Len(s) THEN 0
    ELSE IF IsQuote(s[i + 1]) THEN i + 1
    ELSE NextQuote(s, i + 1)

\* The first position of the run of letters that ends at position j of s
RECURSIVE RunStart(_, _)
RunStart(s, j) == IF j >= 1 /\ IsWord(s[j]) THEN RunStart(s, j - 1) ELSE j + 1

\* The file path expression matching at position i: the quote at i, at
\* least one character that is no quote, a dot, letters, the next quote
PathMatchAt(s, i) ==
    LET k == NextQuote(s, i)
        r == RunStart(s, k - 1)
    IN /\ IsQuote(s[i])
       /\ k # 0
       /\ r <= k - 1
       /\ r - 1 >= i + 2
       /\ s[r - 1] = "."

\* suggestion.match(...): the leftmost match from position i on, 0 if none
RECURSIVE filePathMatchFrom(_, _)
filePathMatchFrom(s, i) ==
    IF i > Len(s) THEN 0
    ELSE IF PathMatchAt(s, i) THEN i
    ELSE filePathMatchFrom(s, i + 1)

\* The first replace of description (fence, anything, next fence), from i on
RECURSIVE removeFenced(_, _)
removeFenced(s, i) ==
    LET open == NextFence(s, i)
        close == IF open = 0 THEN 0 ELSE NextFence(s, open + 3)
    IN IF close = 0 THEN SubSeq(s, i, Len(s))
       ELSE SubSeq(s, i, open - 1) \o removeFenced(s, close + 3)

\* The second replace of description (the quoted file paths), from i on
RECURSIVE removePaths(_, _)
removePaths(s, i) ==
    LET m == filePathMatchFrom(s, i) IN
    IF m = 0 THEN SubSeq(s, i, Len(s))
    ELSE SubSeq(s, i, m - 1) \o removePaths(s, NextQuote(s, m) + 1)

Null == [isNull |-> TRUE]

ParsedChange(filePath, originalCode, suggestedCode, description) ==
    [isNull |-> FALSE, filePath |-> filePath, originalCode |-> originalCode,
     suggestedCode |-> suggestedCode, description |-> description]

\* parseSuggestion with the two blocks exchanged
parseSuggestion_exchanged(suggestion) ==
    LET m == filePathMatchFrom(suggestion, 1) IN
    IF m = 0 THEN Null
    ELSE LET filePath == SubSeq(suggestion, m + 1, NextQuote(suggestion, m) - 1)
             blocks == codeBlocks(suggestion)
             description == trim(removePaths(removeFenced(suggestion, 1), 1))
         IN IF Len(blocks) >= 2
            THEN ParsedChange(filePath, blocks[2], blocks[1], description)
            ELSE IF Len(blocks) = 1
            THEN ParsedChange(filePath, blocks[1], <<>>, description)
            ELSE Null

\* parseSuggestion taking the last block as the suggested code
parseSuggestion_last(suggestion) ==
    LET m == filePathMatchFrom(suggestion, 1) IN
    IF m = 0 THEN Null
    ELSE LET filePath == SubSeq(suggestion, m + 1, NextQuote(suggestion, m) - 1)
             blocks == codeBlocks(suggestion)
             description == trim(removePaths(removeFenced(suggestion, 1), 1))
         IN IF Len(blocks) >= 2
            THEN ParsedChange(filePath, blocks[1], blocks[Len(blocks)], description)
            ELSE IF Len(blocks) = 1
            THEN ParsedChange(filePath, <<>>, blocks[1], description)
            ELSE Null

parseSuggestion(suggestion) ==
    LET m == filePathMatchFrom(suggestion, 1) IN
    IF m = 0 THEN Null
    ELSE LET filePath == SubSeq(suggestion, m + 1, NextQuote(suggestion, m) - 1)
             blocks == codeBlocks(suggestion)
             description == trim(removePaths(removeFenced(suggestion, 1), 1))
         IN IF Len(blocks) >= 2
            THEN ParsedChange(filePath, blocks[1], blocks[2], description)
            ELSE IF Len(blocks) = 1
            THEN ParsedChange(filePath, <<>>, blocks[1], description)
            ELSE Null

\* (?:javascript|typescript|js|ts)
LanguageTags == {"javascript", "typescript", "js", "ts"}

\* codeBlockRegex of extractCodeFromMarkdown (a fence, one of the language
\* tags or nothing, a newline, the group, a fence) matching at the fence at
\* position open: the position its group starts at, 0 if it does not match
GroupStart(s, open) ==
    IF open + 4 <= Len(s) /\ s[open + 3] \in LanguageTags /\ s[open + 4] = "\n"
    THEN open + 5
    ELSE IF open + 3 <= Len(s) /\ s[open + 3] = "\n"
    THEN open + 4
    ELSE 0

\* markdown.match(codeBlockRegex), from position i on: the trimmed group of the
\* leftmost match, Null if there is none
RECURSIVE extractFrom(_, _)
extractFrom(s, i) ==
    LET open == NextFence(s, i) IN
    IF open = 0 THEN Null
    ELSE LET start == GroupStart(s, open)
             close == IF start = 0 THEN 0 ELSE NextFence(s, start)
         IN IF close = 0 THEN extractFrom(s, open + 1)
            ELSE [isNull |-> FALSE, code |-> trim(SubSeq(s, start, close - 1))]

extractCodeFromMarkdown(markdown) == extractFrom(markdown, 1)

----------------------------------------------------------------------------
(* client/src/components/file-upload.tsx. A file name and a path are texts:  *)
(* sequences whose elements are a slash, a dot or a word.                    *)

MAX_FILE_SIZE == 5 * 1024 * 1024
MAX_TOTAL_SIZE == 50 * 1024 * 1024

ACCEPTED_EXTENSIONS ==
    {"js", "ts", "jsx", "tsx", "py", "java", "cpp", "c", "h", "cs", "php", "rb",
     "swift", "go", "rs", "html", "css", "scss", "json", "yml", "yaml", "md", "txt"}

EXCLUDED_DIRS == {<<"node_modules">>, <<"dist">>, <<"build">>, <<".", "git">>}

\* String.prototype.includes
includes(s, pat) ==
    \E i \in 1..(Len(s) - Len(pat) + 1) : SubSeq(s, i, i + Len(pat) - 1) = pat

\* filePath.split('.').pop(): what follows the last dot, the whole text when
\* there is no dot
LastPart(s) ==
    LET dots == {i \in 1..Len(s) : s[i] = "."} IN
    IF dots = {} THEN s
    ELSE SubSeq(s, (CHOOSE i \in dots : \A j \in dots : j <= i) + 1, Len(s))

isValidFile(filePath) ==
    IF \E dir \in EXCLUDED_DIRS : includes(filePath, <<"/">> \o dir \o <<"/">>)
    THEN FALSE
    ELSE LET ext == LastPart(filePath) IN
         \* a text of several elements holds a slash and is no extension
         Len(ext) = 1 /\ toLowerCase(ext[1]) \in ACCEPTED_EXTENSIONS

\* path ? path/name : name
Join(path, name) == IF path # <<>> THEN path \o <<"/">> \o name ELSE name

\* The locals of a run of handleFiles
NoFilesYet ==
    [newFiles |-> <<>>, newTotalSize |-> 0, hasShownSizeError |-> FALSE, toasts |-> <<>>]

\* The catch of processFile: the toast of the error, unless hasShownSizeError
Caught(acc, message) ==
    IF ~acc.hasShownSizeError
    THEN [acc EXCEPT !.toasts = Append(@, ErrorToast(message))]
    ELSE acc

\* if (!hasShownSizeError) { hasShownSizeError = true; throw new Error(message) }
\* return
Refuse(acc, message) ==
    IF ~acc.hasShownSizeError
    THEN Caught([acc EXCEPT !.hasShownSizeError = TRUE], message)
    ELSE acc

\* newFiles[filePath] = {path, content}: a new key comes last, a key the
\* object has keeps its place and takes the new value
Put(newFiles, entry) ==
    IF \E i \in 1..Len(newFiles) : newFiles[i].path = entry.path
    THEN [i \in 1..Len(newFiles) |->
            IF newFiles[i].path = entry.path THEN entry ELSE newFiles[i]]
    ELSE Append(newFiles, entry)

\* processFile without the two tests of the size
processFile_noLimits(file, path, acc) ==
    LET filePath == Join(path, file.name) IN
    IF ~isValidFile(filePath) THEN acc
    ELSE [acc EXCEPT !.newFiles = Put(@, [path |-> filePath, content |-> file]),
                     !.newTotalSize = @ + file.size]

\* processFile appending to a list instead of writing a key
processFile_append(file, path, acc) ==
    LET filePath == Join(path, file.name) IN
    IF ~isValidFile(filePath) THEN acc
    ELSE IF file.size > MAX_FILE_SIZE
    THEN Refuse(acc, "File exceeds the 5MB size limit")
    ELSE IF acc.newTotalSize + file.size > MAX_TOTAL_SIZE
    THEN Refuse(acc, "Total upload size exceeds 50MB limit")
    ELSE [acc EXCEPT !.newFiles = Append(@, [path |-> filePath, content |-> file]),
                     !.newTotalSize = @ + file.size]

\* processFile(file, path) on the locals acc. The content of a file, the
\* result of file.text(), is modelled by the file it is the text of.
processFile(file, path, acc) ==
    LET filePath == Join(path, file.name) IN
    IF ~isValidFile(filePath) THEN acc
    ELSE IF file.size > MAX_FILE_SIZE
    THEN Refuse(acc, "File exceeds the 5MB size limit")
    ELSE IF acc.newTotalSize + file.size > MAX_TOTAL_SIZE
    THEN Refuse(acc, "Total upload size exceeds 50MB limit")
    ELSE [acc EXCEPT !.newFiles = Put(@, [path |-> filePath, content |-> file]),
                     !.newTotalSize = @ + file.size]

\* for (const file of Array.from(items)) await processFile(file)
RECURSIVE processFiles(_, _)
processFiles(files, acc) ==
    IF files = <<>> THEN acc
    ELSE processFiles(Tail(files), processFile(Head(files), <<>>, acc))

\* processEntry(entry, path) of a component whose prop allowDirectories is
\* allow, and the loop over the entries of a directory
RECURSIVE processEntry(_, _, _, _)
RECURSIVE processEntries(_, _, _, _)
processEntry(entry, path, allow, acc) ==
    IF entry.isFile THEN processFile(entry, path, acc)
    ELSE IF allow
    THEN IF entry.name \in EXCLUDED_DIRS THEN acc
         ELSE processEntries(entry.entries, Join(path, entry.name), allow, acc)
    ELSE acc

processEntries(entries, path, allow, acc) ==
    IF entries = <<>> THEN acc
    ELSE processEntries(Tail(entries), path, allow,
                        processEntry(Head(entries), path, allow, acc))

WarningToast(d) == [variant |-> "destructive", description |-> d]

\* cleanupFiles, then the walk of the items, then the delivery
handleFiles(acc, items) ==
    /\ offered' = items
    /\ batchErrors' = [hasShownSizeError |-> acc.hasShownSizeError, toasts |-> acc.toasts]
    /\ totalSize' = IF Len(acc.newFiles) > 0 THEN acc.newTotalSize ELSE 0
    /\ selectedFiles' = acc.newFiles
    /\ delivered' = acc.newFiles
    /\ uploadToast' = IF Len(acc.newFiles) > 0
                      THEN SuccessToast("file(s) uploaded successfully")
                      ELSE WarningToast("No valid files were found to upload")
    /\ UNCHANGED allowDirectories

\* handleDrop with e.dataTransfer.items
handleDrop(items) ==
    handleFiles(processEntries(items.entries, <<>>, allowDirectories, NoFilesYet),
                [items EXCEPT !.via = "drop"])

\* handleChange, and handleDrop without e.dataTransfer.items: a FileList
handleChange(items) ==
    /\ Len(items.files) > 0
    /\ allowDirectories \/ \A i \in 1..Len(items.files) : items.files[i].dirs = <<>>
    /\ handleFiles(processFiles(items.files, NoFilesYet), [items EXCEPT !.via = "change"])

\* The X button of a file of the tree
removeFile(path) ==
    /\ \E i \in 1..Len(selectedFiles) : selectedFiles[i].path = path
    /\ LET NotIt(f) == f.path # path IN
       /\ selectedFiles' = SelectSeq(selectedFiles, NotIt)
       /\ delivered' = SelectSeq(selectedFiles, NotIt)
    /\ uploadToast' = NoToast
    /\ UNCHANGED <<totalSize, allowDirectories, offered, batchErrors>>

\* The component is unmounted, which runs cleanupFiles, and the component of
\* the tab the page shows next is mounted
Remount(allow) ==
    /\ selectedFiles' = <<>>
    /\ totalSize' = 0
    /\ delivered' = <<>>
    /\ allowDirectories' = allow
    /\ uploadToast' = NoToast
    /\ UNCHANGED <<offered, batchErrors>>

\* cleanupFiles, the Clear All button of the selected files
cleanupFiles ==
    /\ Len(selectedFiles) > 0
    /\ selectedFiles' = <<>>
    /\ totalSize' = 0
    /\ delivered' = <<>>
    /\ uploadToast' = NoToast
    /\ UNCHANGED <<allowDirectories, offered, batchErrors>>

NothingOffered == [entries |-> <<>>, files |-> <<>>, via |-> "none"]

UploadInit ==
    /\ selectedFiles = <<>>
    /\ totalSize = 0
    /\ delivered = <<>>
    /\ allowDirectories = FALSE
    /\ offered = NothingOffered
    /\ batchErrors = [hasShownSizeError |-> FALSE, toasts |-> <<>>]
    /\ uploadToast = NoToast

----------------------------------------------------------------------------
(* The files and directories the upload component is offered *)

MaxBatch == 11      \* the directory of large files holds so many files

\* A File: its name, its size, and the directories that lead to it in the tree
\* it was dropped or selected with (webkitRelativePath), which the component
\* does not read
FileEntry(name, size) ==
    [isFile |-> TRUE, name |-> name, size |-> size, dirs |-> <<>>, entries |-> <<>>]

DirEntry(name, entries) ==
    [isFile |-> FALSE, name |-> name, size |-> 0, dirs |-> <<>>, entries |-> entries]

\* The entry with the place of each of its files
RECURSIVE Place(_, _)
Place(entry, dirs) ==
    IF entry.isFile THEN [entry EXCEPT !.dirs = dirs]
    ELSE [entry EXCEPT !.dirs = dirs,
                       !.entries = [i \in 1..Len(entry.entries) |->
                                      Place(entry.entries[i], Append(dirs, entry.name))]]

\* The FileList of the picker for the entries: every file of the tree
RECURSIVE FilesOf(_)
FilesOf(entries) ==
    IF entries = <<>> THEN <<>>
    ELSE (IF Head(entries).isFile THEN <<Head(entries)>> ELSE FilesOf(Head(entries).entries))
         \o FilesOf(Tail(entries))

\* What one drop or one selection offers: the entries of the DataTransferItemList
\* and the files of the FileList
Items(entries) ==
    LET placed == [i \in 1..Len(entries) |-> Place(entries[i], <<>>)] IN
    [entries |-> placed, files |-> FilesOf(placed), via |-> "none"]

BatchNames ==
    <<"f1", "f2", "f3", "f4", "f5", "f6", "f7", "f8", "f9", "f10", "f11", "f12", "f13">>

\* Files of the largest size allowed, as many as MaxBatch, then a file of one byte
LargeFiles ==
    [i \in 1..MaxBatch |-> FileEntry(<<BatchNames[i], ".", "js">>, MAX_FILE_SIZE)]
    \o <<FileEntry(<<"last", ".", "txt">>, 1)>>

PlainFiles ==
    << FileEntry(<<"a", ".", "js">>, 1),
       FileEntry(<<"logo", ".", "PNG">>, 1),
       FileEntry(<<"Makefile">>, 1),
       FileEntry(<<"B", ".", "TSX">>, MAX_FILE_SIZE),
       FileEntry(<<"huge", ".", "ts">>, MAX_FILE_SIZE + 1) >>

Project ==
    DirEntry(<<"proj">>,
        << FileEntry(<<"a", ".", "js">>, 1),
           DirEntry(<<"node_modules">>, <<FileEntry(<<"index", ".", "js">>, 2)>>),
           DirEntry(<<"src">>,
               << FileEntry(<<"a", ".", "js">>, 3),
                  DirEntry(<<"build">>, <<FileEntry(<<"out", ".", "css">>, 4)>>),
                  FileEntry(<<"notes", ".", "docx">>, 5) >>),
           DirEntry(<<".", "git">>, <<FileEntry(<<"config", ".", "yml">>, 6)>>) >>)

\* A directory with two files of one name at two places
Library ==
    DirEntry(<<"lib">>,
        << FileEntry(<<"index", ".", "ts">>, 8),
           DirEntry(<<"util">>, <<FileEntry(<<"index", ".", "ts">>, 9)>>) >>)

OfferedItems ==
    { Items(PlainFiles),
      Items(<<Project>>),
      Items(<<Library>>),
      Items(<<DirEntry(<<"dist">>, <<FileEntry(<<"app", ".", "js">>, 7)>>)>>),
      Items(<<DirEntry(<<"big">>, LargeFiles)>>),
      Items(<<>>) }

----------------------------------------------------------------------------
(* The suggestions the parser is driven with *)

Fence == <<Tick, Tick, Tick>>

Prose(words) == [kind |-> "prose", text |-> words, code |-> <<>>]

\* A path between two quotes q
QuotedPath(q, name, ext) ==
    [kind |-> "path", text |-> <<q, name, ".", ext, q, " ">>, code |-> <<>>]

\* A fenced code block: the fence with its info string on a line of its own,
\* the lines of the block, the closing fence on a line of its own
CodeBlock(info, lines, code) ==
    [kind |-> "block",
     text |-> <<"\n">> \o Fence \o info \o <<"\n">> \o lines \o <<"\n">> \o Fence \o <<"\n">>,
     code |-> code]

\* A fence that nothing closes
OpenFence == [kind |-> "fence", text |-> <<"\n">> \o Fence \o <<"\n">>, code |-> <<>>]

Pieces ==
    { Prose(<<"Rename", " ", "it", " ">>),
      Prose(<<"'", "value", "'", " ">>),
      QuotedPath("'", "app", "ts"),
      QuotedPath(Tick, "util", "js"),
      CodeBlock(<<>>, <<"x">>, <<"x">>),
      CodeBlock(<<"js">>, <<"y", "\n", "y">>, <<"y", "\n", "y">>),
      CodeBlock(<<"python">>, <<" ", "z", " ">>, <<"z">>),
      OpenFence }

\* The text of a sequence of pieces
RECURSIVE TextOf(_)
TextOf(ps) == IF ps = <<>> THEN <<>> ELSE Head(ps).text \o TextOf(Tail(ps))

NotParsed == [isNull |-> FALSE, pending |-> TRUE]

ParseInit ==
    /\ parts = <<>>
    /\ parsed = NotParsed
    /\ extracted = NotParsed

\* The model writes one more piece of the suggestion
Write(piece) ==
    /\ parsed = NotParsed
    /\ Len(parts) < MaxParts
    /\ parts' = Append(parts, piece)
    /\ UNCHANGED <<parsed, extracted>>

\* The review display and the page read the suggestion
Read ==
    /\ parsed = NotParsed
    /\ parsed' = parseSuggestion(TextOf(parts))
    /\ extracted' = extractCodeFromMarkdown(TextOf(parts))
    /\ UNCHANGED parts

----------------------------------------------------------------------------
(* home.tsx with its FileUpload (onFilesSelected = setFiles), handleFiles    *)
(* in its two parts: up to its first await, and from the end of the reading. *)
(* The tab of the input mode mounts the FileUpload; a change of the mode     *)
(* unmounts it and mounts the component of the new tab.                      *)

MaxReading == 2     \* so many file batches are being read at once
MaxMounts == 3      \* the input mode is changed at most so many times

\* handleFiles up to the reading of the files: setIsProcessing, cleanupFiles
\* (which calls onFilesSelected([])), then the walk, which awaits
BeginFiles(acc, items) ==
    /\ home.inputMode \in {"files", "project"}
    /\ Cardinality(reading) < MaxReading
    /\ reading' = reading \cup {[acc |-> acc, items |-> items, instance |-> instance]}
    /\ sinceSwitch' = "ingesting"
    /\ selectedFiles' = <<>>
    /\ totalSize' = 0
    /\ delivered' = <<>>
    /\ uploadToast' = NoToast
    /\ SetState([home EXCEPT !.files = <<>>])
    /\ UNCHANGED <<allowDirectories, offered, batchErrors, instance>>

BeginDrop(items) ==
    BeginFiles(processEntries(items.entries, <<>>, allowDirectories, NoFilesYet),
               [items EXCEPT !.via = "drop"])

BeginChange(items) ==
    /\ Len(items.files) > 0
    /\ allowDirectories \/ \A i \in 1..Len(items.files) : items.files[i].dirs = <<>>
    /\ BeginFiles(processFiles(items.files, NoFilesYet), [items EXCEPT !.via = "change"])

\* handleFiles from the end of the reading of batch b: the state setters act
\* on the component that ran it, onFilesSelected is the setFiles of the page
CompleteFiles(b) ==
    /\ b \in reading
    /\ reading' = reading \ {b}
    /\ offered' = b.items
    /\ batchErrors' = [hasShownSizeError |-> b.acc.hasShownSizeError, toasts |-> b.acc.toasts]
    /\ IF Len(b.acc.newFiles) > 0
       THEN /\ IF b.instance = instance
               THEN selectedFiles' = b.acc.newFiles /\ totalSize' = b.acc.newTotalSize
               ELSE UNCHANGED <<selectedFiles, totalSize>>
            /\ delivered' = b.acc.newFiles
            /\ uploadToast' = SuccessToast("file(s) uploaded successfully")
            /\ SetState([home EXCEPT !.files = b.acc.newFiles])
       ELSE /\ uploadToast' = WarningToast("No valid files were found to upload")
            /\ UNCHANGED <<selectedFiles, totalSize, delivered, pageVars>>
    /\ UNCHANGED <<allowDirectories, instance, sinceSwitch>>

\* The user changes the tab: handleInputModeChange, the cleanup of the
\* FileUpload of the tab left, and the FileUpload of the tab entered
SwitchMode(mode) ==
    /\ mode # home.inputMode
    /\ instance < MaxMounts
    /\ handleInputModeChange(mode)
    /\ instance' = instance + 1
    /\ sinceSwitch' = "switched"
    /\ selectedFiles' = <<>>
    /\ totalSize' = 0
    /\ delivered' = <<>>
    /\ allowDirectories' = (mode = "project")
    /\ uploadToast' = NoToast
    /\ UNCHANGED <<offered, batchErrors, reading>>

SwitchInit ==
    /\ reading = {}
    /\ instance = 0
    /\ sinceSwitch = "none"

SwitchItems == {Items(PlainFiles), Items(<<Library>>), Items(<<>>)}

----------------------------------------------------------------------------
(* client/src/components/review-display.tsx: ReviewDisplay grouped by file,  *)
(* with the FileDiffView of file-diff-view.tsx                               *)

MaxContent == 3     \* a content list holds at most so many suggestions

\* organizeChangesByFile: for each file path the changes parsed from the
\* suggestions that name it, in the order of the suggestions
organizeChangesByFile(suggestions) ==
    LET changes == [k \in 1..Len(suggestions) |-> parseSuggestion(suggestions[k])]
        paths == {changes[k].filePath : k \in {k \in 1..Len(suggestions) : ~changes[k].isNull}}
    IN [f \in paths |->
          LET OfFile(change) == ~change.isNull /\ change.filePath = f
          IN SelectSeq(changes, OfFile)]

\* What ReviewDisplay returns: the cards of the fallback display when no
\* suggestion parses, else the FileDiffView of the changes
Render(suggestions) ==
    LET fileChanges == organizeChangesByFile(suggestions) IN
    IF DOMAIN fileChanges = {}
    THEN [kind |-> "cards", items |-> suggestions, files |-> fileChanges]
    ELSE [kind |-> "files", items |-> <<>>, files |-> fileChanges]

\* content[index], the argument handleApplyChange gives onApplyChange; index
\* counts from 0
ApplyArgument(suggestions, filePath, index) == suggestions[index + 1]

\* handleApplyChange(filePath, index) with the appliedChanges of the render:
\* the arguments of the calls of onApplyChange it makes
handleApplyChange(filePath, index) ==
    LET fileChanges == view.files IN
    IF filePath \in DOMAIN fileChanges /\ index + 1 <= Len(fileChanges[filePath])
       /\ <<filePath, index>> \notin appliedChanges
    THEN <<ApplyArgument(content, filePath, index)>>
    ELSE <<>>

\* The Apply button of change index of file filePath in the FileDiffView
ClickApply(filePath, index) ==
    /\ view.kind = "files"
    /\ filePath \in DOMAIN view.files
    /\ index + 1 <= Len(view.files[filePath])
    /\ clicked' = [filePath |-> filePath, first |-> index, last |-> index]
    /\ handed' = handleApplyChange(filePath, index)
    /\ appliedChanges' = appliedChanges \cup {<<filePath, index>>}
    /\ UNCHANGED <<mounted, content, view>>

\* handleApplyAllInFile: onApplyChange for each change of the file not yet
\* applied
RECURSIVE ApplyFrom(_, _)
ApplyFrom(filePath, index) ==
    IF index + 1 > Len(view.files[filePath]) THEN <<>>
    ELSE handleApplyChange(filePath, index) \o ApplyFrom(filePath, index + 1)

handleApplyAllInFile(filePath) ==
    /\ view.kind = "files"
    /\ filePath \in DOMAIN view.files
    /\ \E i \in 0..(Len(view.files[filePath]) - 1) : <<filePath, i>> \notin appliedChanges
    /\ clicked' = [filePath |-> filePath, first |-> 0, last |-> Len(view.files[filePath]) - 1]
    /\ handed' = ApplyFrom(filePath, 0)
    /\ appliedChanges' =
          appliedChanges \cup {<<filePath, i>> : i \in 0..(Len(view.files[filePath]) - 1)}
    /\ UNCHANGED <<mounted, content, view>>

NoClick == [filePath |-> <<>>, first |-> 0, last |-> -1]

\* The page mounts ReviewDisplay with a content list of a review
Show(suggestions) ==
    /\ ~mounted
    /\ mounted' = TRUE
    /\ content' = suggestions
    /\ view' = Render(suggestions)
    /\ appliedChanges' = {}
    /\ handed' = <<>>
    /\ clicked' = NoClick

\* The page unmounts it
Hide ==
    /\ mounted
    /\ mounted' = FALSE
    /\ content' = <<>>
    /\ view' = Render(<<>>)
    /\ appliedChanges' = {}
    /\ handed' = <<>>
    /\ clicked' = NoClick

DisplayInit ==
    /\ mounted = FALSE
    /\ content = <<>>
    /\ view = Render(<<>>)
    /\ appliedChanges = {}
    /\ handed = <<>>
    /\ clicked = NoClick

\* The suggestions of the content lists: one without a path, one with a path
\* and no block, two that name app.ts and one that names util.js
Suggestions ==
    { TextOf(<<Prose(<<"Rename", " ", "it", " ">>), CodeBlock(<<>>, <<"x">>, <<"x">>)>>),
      TextOf(<<QuotedPath("'", "app", "ts"), Prose(<<"Rename", " ", "it", " ">>)>>),
      TextOf(<<QuotedPath("'", "app", "ts"), CodeBlock(<<>>, <<"x">>, <<"x">>)>>),
      TextOf(<<Prose(<<"Rename", " ", "it", " ">>), QuotedPath("'", "app", "ts"),
               CodeBlock(<<"js">>, <<"y", "\n", "y">>, <<"y", "\n", "y">>),
               CodeBlock(<<>>, <<"x">>, <<"x">>)>>),
      TextOf(<<QuotedPath(Tick, "util", "js"), CodeBlock(<<>>, <<"x">>, <<"x">>)>>) }

ContentLists == UNION { [1..n -> Suggestions] : n \in 0..MaxContent }

FilePaths == {<<"app", ".", "ts">>, <<"util", ".", "js">>}

----------------------------------------------------------------------------
(* The initial state, and the parser driven piece by piece *)

Init ==
    ServerInit /\ PageInit /\ ParseInit /\ UploadInit /\ DisplayInit /\ SwitchInit

ParseNext ==
    /\ \/ \E piece \in Pieces : Write(piece)
       \/ Read
    /\ UNCHANGED <<serverVars, pageVars, uploadVars, displayVars, switchVars>>

ParseSpec == Init /\ [][ParseNext]_vars

----------------------------------------------------------------------------
(* The page *)

\* The page as the user drives it
PageNext ==
    /\ \/ Inputs
       \/ ClickReview
       \/ \E latest \in BOOLEAN, ok \in BOOLEAN : Settle(latest, ok)
    /\ UNCHANGED <<serverVars, parseVars, uploadVars, displayVars, switchVars>>

PageSpec == Init /\ [][PageNext]_vars

\* handleReview run on any state of the page, whatever the button shows
HandlerNext ==
    /\ \/ Inputs
       \/ RunHandleReview
       \/ \E latest \in BOOLEAN, ok \in BOOLEAN : Settle(latest, ok)
    /\ UNCHANGED <<serverVars, parseVars, uploadVars, displayVars, switchVars>>

HandlerSpec == Init /\ [][HandlerNext]_vars

----------------------------------------------------------------------------
(* The upload component *)

UploadNext ==
    /\ \/ \E items \in OfferedItems : handleDrop(items)
       \/ \E items \in OfferedItems : handleChange(items)
       \/ \E i \in 1..Len(selectedFiles) : removeFile(selectedFiles[i].path)
       \/ cleanupFiles
       \/ \E allow \in BOOLEAN : Remount(allow)
    /\ UNCHANGED <<serverVars, pageVars, parseVars, displayVars, switchVars>>

UploadSpec == Init /\ [][UploadNext]_vars

----------------------------------------------------------------------------
(* The review display *)

DisplayNext ==
    /\ \/ \E suggestions \in ContentLists : Show(suggestions)
       \/ \E f \in FilePaths, i \in 0..(MaxContent - 1) : ClickApply(f, i)
       \/ \E f \in FilePaths : handleApplyAllInFile(f)
       \/ Hide
    /\ UNCHANGED <<serverVars, pageVars, parseVars, uploadVars, switchVars>>

DisplaySpec == Init /\ [][DisplayNext]_vars

----------------------------------------------------------------------------
(* The page with its upload component *)

SwitchNext ==
    /\ \/ \E items \in SwitchItems : BeginDrop(items)
       \/ \E items \in SwitchItems : BeginChange(items)
       \/ \E b \in reading : CompleteFiles(b)
       \/ \E mode \in {"paste", "files", "project"} : SwitchMode(mode)
    /\ UNCHANGED <<serverVars, parseVars, displayVars>>

SwitchSpec == Init /\ [][SwitchNext]_vars

----------------------------------------------------------------------------
(* The server, driven by any client *)

Next ==
    /\ \/ \E r \in ReviewRequests, out \in ModelAnswers : PostReview(r, out)
       \/ \E r \in CodeRequests, out \in ModelAnswers : PostReviewCode(r, out)
       \/ \E p \in IdParams : GetReview(p)
       \/ GetReviews
    /\ UNCHANGED <<pageVars, parseVars, uploadVars, displayVars, switchVars>>

Spec == Init /\ [][Next]_vars

----------------------------------------------------------------------------
(* Properties of the review endpoint *)

ReviewRoute == "POST /api/review"

\* files is a non-empty array and name is present and non-empty
WellFormed(r) ==
    /\ r.files.kind = "array"
    /\ Len(r.files.items) > 0
    /\ r.name \notin {Undefined, ""}

\* code is a non-empty string
WellFormedCode(r) == r.code.kind = "string" /\ r.code.text # ""

Acceptable(r) ==
    \/ r.variant = "files" /\ WellFormed(r)
    \/ r.variant = "code" /\ WellFormedCode(r)

StoreUnchanged == UNCHANGED <<reviews, reviewFiles, reviewResults>>

\* C1: POST /api/review calls the model only for a request whose files are a
\* non-empty array and whose name is present and non-empty (in the code-string
\* variant: whose code is a non-empty string); every other request is answered
\* 400 with no model call and no row written.
C1_ValidationGuardsModel ==
    [][ resp'.route = ReviewRoute =>
          /\ sysmsg' # NoCall => Acceptable(req')
          /\ ~Acceptable(req') =>
                /\ resp'.status = 400
                /\ sysmsg' = NoCall
                /\ StoreUnchanged ]_vars

\* A request that asks to save but has no files was answered 400 while a review
\* was stored
C1_Witness ==
    /\ resp.route = ReviewRoute
    /\ resp.status = 400
    /\ req.variant = "files"
    /\ req.save = JTrue
    /\ Len(req.files.items) = 0
    /\ reviews # {}

\* The model did not deliver a JSON text
ModelFailed == completion.kind \in {"reject", "null", "blank", "text"}

\* C2: when the model call fails, returns no content or returns content that
\* is not JSON, POST /api/review answers 500 (never 200) with the message
\* "Failed to analyze code: " followed by the text of the underlying error.
C2_ModelFailureIs500 ==
    (resp.route = ReviewRoute /\ req.variant = "files" /\ ModelFailed) =>
        /\ resp.status = 500
        /\ Len(resp.message) = 2
        /\ resp.message[1] = "Failed to analyze code: "
        /\ resp.message[2] # ""
        /\ completion.kind = "reject" => <<resp.message[2]>> = completion.message

C2_Witness ==
    /\ resp.route = ReviewRoute
    /\ req.variant = "files"
    /\ completion.kind = "null"
    /\ req.save = JTrue
    /\ resp.status = 500

\* C3: the system message of a request with one of the five modes begins with
\* that mode's template, and with the general template when the request has
\* no mode.
C3_PromptFollowsMode ==
    (req.variant = "files" /\ sysmsg # NoCall) =>
        /\ req.mode \in ReviewModes => sysmsg[1] = REVIEW_PROMPTS[req.mode]
        /\ req.mode = Undefined => sysmsg[1] = REVIEW_PROMPTS["general"]

C3_Witness ==
    /\ req.variant = "files"
    /\ sysmsg # NoCall
    /\ req.mode = "clean-code"
    /\ sysmsg[1] = "You are a clean code expert."

\* The review the last request created: the one with the last id issued
Created == findFirst(idSeq.reviews, reviews, reviewFiles, reviewResults)

SavedOk ==
    /\ resp.route = ReviewRoute
    /\ req.variant = "files"
    /\ req.save = JTrue
    /\ resp.status = 200

\* C4: after a POST /api/review with save = true answered 200, the query of
\* GET /api/reviews/:id for the created review yields the submitted name,
\* description, language and mode, one file row per submitted file with its
\* path and content, and one result whose five arrays are those of the 200
\* response.
C4_PersistenceRoundTrip ==
    SavedOk =>
        /\ Created.found
        /\ Created.review.name = req.name
        /\ req.description # Undefined => Created.review.description = req.description
        /\ req.language # Undefined => Created.review.language = req.language
        /\ req.mode # Undefined => Created.review.mode = req.mode
        /\ Cardinality(Created.files) = Len(req.files.items)
        /\ \A i \in 1..Len(req.files.items) :
              \E f \in Created.files :
                  /\ f.path = req.files.items[i].path
                  /\ f.content = req.files.items[i].content
        /\ Cardinality(Created.results) = 1
        /\ \A x \in Created.results :
              \A f \in ResultFields : x[f] = resp.body.value[f]

C4_Witness ==
    /\ SavedOk
    /\ req.mode = "security"
    /\ Len(req.files.items) = 2
    /\ Cardinality(reviews) = 2

\* C5: a POST /api/review whose save flag is false or missing leaves the three
\* tables as they were, whatever it answers.
C5_NoSaveNoWrite ==
    [][ (resp'.route = ReviewRoute /\ req'.variant = "files"
            /\ req'.save \in {Undefined, JFalse}) => StoreUnchanged ]_vars

C5_Witness ==
    /\ resp.route = ReviewRoute
    /\ req.variant = "files"
    /\ req.save = JFalse
    /\ resp.status = 200
    /\ reviews # {}

IsStringArray(v) == v.t = "array"

\* C6: every 200 answer of POST /api/review carries the five fields
\* suggestions, improvements, security, dependencies and architecture, each an
\* array of strings.
C6_FiveArrays ==
    (resp.route = ReviewRoute /\ req.variant = "files" /\ resp.status = 200) =>
        /\ ResultFields \subseteq DOMAIN resp.body.value
        /\ \A f \in ResultFields : IsStringArray(resp.body.value[f])

----------------------------------------------------------------------------
(* Properties of the review page *)

Blank(s) == \A i \in 1..Len(s) : s[i] \in {" ", "\n"}

\* C7: the page has at most one POST /api/review in flight, whatever the user
\* does while the mutation is pending.
C7_OneInFlight == inFlight <= 1

\* The user changed an input while a request was in flight
C7_Witness ==
    /\ inFlight = 1
    /\ reviewMutation = "pending"
    /\ event = "input"
    /\ home.inputMode = "files"
    /\ home.files # <<>>
    /\ ~Blank(home.reviewName)

\* What handleReview must refuse: no code in paste mode, no file in files or
\* project mode, no name
Refused(h) ==
    \/ h.inputMode = "paste" /\ Blank(h.pastedCode)
    \/ h.inputMode \in {"files", "project"} /\ h.files = <<>>
    \/ Blank(h.reviewName)

\* C8: handleReview sends nothing and shows an error toast when the pasted
\* code is empty or blank (paste mode), the file list is empty (files or
\* project mode) or the name is empty or blank; otherwise it sends exactly one
\* request.
C8_HandleReviewValidates ==
    [][ event' = "handleReview" =>
          IF Refused(home)
          THEN /\ inFlight' = inFlight
               /\ ~sent'.sends
               /\ toast'.variant = "destructive"
          ELSE /\ inFlight' = inFlight + 1
               /\ sent'.sends
               /\ toast' = NoToast ]_vars

\* handleReview refused a blank name after it accepted the code
C8_Witness ==
    /\ event = "handleReview"
    /\ home.inputMode = "paste"
    /\ ~Blank(home.pastedCode)
    /\ home.reviewName = <<" ">>
    /\ ~sent.sends
    /\ toast = ErrorToast("Please enter a name for this review")

----------------------------------------------------------------------------
(* Properties of the suggestion parser *)

IsBlock(piece) == piece.kind = "block"

\* The code of the fenced blocks of the suggestion, in order
BlockCodes == [i \in 1..Len(SelectSeq(parts, IsBlock)) |-> SelectSeq(parts, IsBlock)[i].code]

NamesPath == \E i \in 1..Len(parts) : parts[i].kind = "path"

\* Every fence of the suggestion opens or closes a block
WellFenced == \A i \in 1..Len(parts) : parts[i].kind # "fence"

WasRead == parsed # NotParsed

\* C9: on a suggestion that names a quoted file path, parseSuggestion returns
\* the first block as originalCode and the second as suggestedCode when there
\* are exactly two fenced blocks, and an empty originalCode and the block as
\* suggestedCode when there is exactly one; with no quoted file path or no
\* fenced block it returns null.
C9_ParseSuggestion ==
    (WasRead /\ WellFenced) =>
        /\ (NamesPath /\ Len(BlockCodes) = 2) =>
              /\ ~parsed.isNull
              /\ parsed.originalCode = BlockCodes[1]
              /\ parsed.suggestedCode = BlockCodes[2]
        /\ (NamesPath /\ Len(BlockCodes) = 1) =>
              /\ ~parsed.isNull
              /\ parsed.originalCode = <<>>
              /\ parsed.suggestedCode = BlockCodes[1]
        /\ (~NamesPath \/ Len(BlockCodes) = 0) => parsed.isNull

\* A path and two blocks, the second one indented and tagged python
C9_Witness ==
    /\ WasRead
    /\ WellFenced
    /\ NamesPath
    /\ Len(BlockCodes) = 2
    /\ ~parsed.isNull
    /\ parsed.originalCode = <<"y", "\n", "y">>
    /\ parsed.suggestedCode = <<"z">>

ManyBlocks == WasRead /\ WellFenced /\ NamesPath /\ Len(BlockCodes) > 1

\* C10 as claimed: when a suggestion has more than one fenced block, the
\* suggested code is the last block of the suggestion.
C10_LastBlock ==
    ManyBlocks => ~parsed.isNull /\ parsed.suggestedCode = BlockCodes[Len(BlockCodes)]

\* C10: when a suggestion that names a quoted file path has more than one
\* fenced block, the suggested code parseSuggestion returns is the second
\* block of the suggestion.
C10_SecondBlock ==
    ManyBlocks => ~parsed.isNull /\ parsed.suggestedCode = BlockCodes[2]

\* Three blocks, the second not the last
C10_Witness ==
    /\ ManyBlocks
    /\ Len(BlockCodes) = 3
    /\ BlockCodes[2] # BlockCodes[3]
    /\ parsed.suggestedCode = BlockCodes[2]

----------------------------------------------------------------------------
(* Properties of the saved reviews *)

\* C11: GET /api/reviews/:id answers 200 with the stored review of that id,
\* its files and its results when there is one, 404 "Review not found" for
\* every other id, and never changes the tables. The id of a parameter is
\* the integer it starts with.
C11_GetById ==
    [][ req'.variant = "get" =>
          LET q == findFirst(req'.id.num, reviews, reviewFiles, reviewResults) IN
          /\ StoreUnchanged
          /\ IF q.found
             THEN resp'.status = 200 /\ resp'.body.value = q
             ELSE resp'.status = 404 /\ resp'.message = <<"Review not found">> ]_vars

----------------------------------------------------------------------------
(* Properties of the upload component *)

RECURSIVE SizeSum(_)
SizeSum(files) ==
    IF files = <<>> THEN 0 ELSE Head(files).content.size + SizeSum(Tail(files))

\* C12: after any sequence of ingestions, removals and clears, every selected
\* file has a size of at most 5 MiB and the sizes of the selected files sum
\* to at most 50 MiB.
C12_SizeLimits ==
    /\ \A i \in 1..Len(selectedFiles) : selectedFiles[i].content.size <= 5 * 1024 * 1024
    /\ SizeSum(selectedFiles) <= 50 * 1024 * 1024

\* More large files were offered than the total allows, and the selection
\* holds 50 MiB exactly
C12_Witness ==
    /\ Len(offered.files) > 10
    /\ Len(selectedFiles) = 10
    /\ SizeSum(selectedFiles) = 50 * 1024 * 1024
    /\ \A i \in 1..Len(selectedFiles) : selectedFiles[i].content.size = 5 * 1024 * 1024

\* The extension of a file name: what follows its last dot
HasAcceptedExtension(file) ==
    /\ Len(LastPart(file.name)) = 1
    /\ Len(file.name) > 1
    /\ toLowerCase(LastPart(file.name)[1]) \in ACCEPTED_EXTENSIONS

InExcludedDir(file) ==
    \E i \in 1..Len(file.dirs) : file.dirs[i] \in EXCLUDED_DIRS

\* C13: every delivered file has an accepted extension, and no delivered file
\* lies inside a node_modules, dist, build or .git directory of the tree it
\* was dropped or selected with.
C13_AcceptedFilesOnly ==
    \A i \in 1..Len(delivered) :
        /\ HasAcceptedExtension(delivered[i].content)
        /\ ~InExcludedDir(delivered[i].content)

\* C14: the delivered list never holds two entries with the same path.
C14_DistinctPaths ==
    \A i, j \in 1..Len(delivered) : i # j => delivered[i].path # delivered[j].path

\* Two acceptable files of the same name were offered, and the list holds the
\* later one under that name
C14_Witness ==
    \E i, j \in 1..Len(offered.files) :
        /\ i < j
        /\ offered.files[i].name = offered.files[j].name
        /\ \E k \in 1..Len(delivered) :
              /\ delivered[k].path = offered.files[j].name
              /\ delivered[k].content = offered.files[j]

\* C15: every row of review_files and every row of review_results references
\* a row of reviews that exists.
C15_ForeignKeys ==
    /\ \A f \in reviewFiles : \E r \in reviews : r.id = f.reviewId
    /\ \A x \in reviewResults : \E r \in reviews : r.id = x.reviewId

\* Two reviews are stored, each with files, and both with their result
C15_Witness ==
    /\ Cardinality(reviews) = 2
    /\ \A r \in reviews : \E f \in reviewFiles : f.reviewId = r.id
    /\ Cardinality(reviewResults) = 2

\* C16: a row of one of the three tables is in every later state with the same
\* values in all its fields, whatever requests the server answers.
C16_RowsAreKept ==
    [][ /\ reviews \subseteq reviews'
        /\ reviewFiles \subseteq reviewFiles'
        /\ reviewResults \subseteq reviewResults' ]_vars

\* A second review was saved after the first, which is listed unchanged
C16_Witness ==
    /\ req.variant = "list"
    /\ resp.status = 200
    /\ Len(resp.body.value) = 2
    /\ resp.body.value[2].review.id = 1
    /\ resp.body.value[2].review.name = "Review 1"
    /\ Cardinality(resp.body.value[2].files) = 1

\* C18: saving is all or nothing. Every stored review has at least one file
\* row and exactly one result row, and a POST /api/review answered 500 leaves
\* the three tables as they were.
C18_AllOrNothing ==
    [][ /\ \A r \in reviews' :
              /\ \E f \in reviewFiles' : f.reviewId = r.id
              /\ Cardinality({x \in reviewResults' : x.reviewId = r.id}) = 1
        /\ (resp'.route = ReviewRoute /\ resp'.status = 500) => StoreUnchanged ]_vars

\* C19: the model is called only with one of the five modes: the system
\* message of a request never begins with an undefined template.
C19_ModeIsOfEnum ==
    (req.variant = "files" /\ sysmsg # NoCall) =>
        /\ Default(req.mode, "general") \in ReviewModes
        /\ sysmsg[1] # Undefined

----------------------------------------------------------------------------
(* Properties of the review display *)

\* The suggestion change number index (from 0) of file filePath was parsed
\* from: the one after index suggestions that name the file
SourceOf(suggestions, filePath, index) ==
    LET Names(k) == LET c == parseSuggestion(suggestions[k]) IN
                    ~c.isNull /\ c.filePath = filePath
        k == CHOOSE k \in 1..Len(suggestions) :
                /\ Names(k)
                /\ Cardinality({j \in 1..(k - 1) : Names(j)}) = index
    IN suggestions[k]

\* C17: the Apply button of change number i of file f hands onApplyChange the
\* suggestion that change was parsed from, for every content list.
C17_ApplyHandsSource ==
    (clicked.first = clicked.last /\ Len(handed) = 1) =>
        handed[1] = SourceOf(content, clicked.filePath, clicked.first)

\* C20: every suggestion of the content list is shown, as a card of the
\* fallback list or as a change under its file in the file diff view.
C20_EverySuggestionShown ==
    \A k \in 1..Len(content) :
        \/ /\ view.kind = "cards"
           /\ \E i \in 1..Len(view.items) : view.items[i] = content[k]
        \/ /\ view.kind = "files"
           /\ \E f \in DOMAIN view.files :
                 \E i \in 1..Len(view.files[f]) :
                     view.files[f][i] = parseSuggestion(content[k])

----------------------------------------------------------------------------
(* Properties of the input modes *)

\* C21: right after handleInputModeChange the pasted code is the empty string
\* and the file list is empty, and the review name, the description, the
\* language, the review mode and the save flag are what they were.
C21_ModeChangeResetsInput ==
    [][ event' = "handleInputModeChange" =>
          /\ home'.pastedCode = <<>>
          /\ home'.files = <<>>
          /\ home'.reviewName = home.reviewName
          /\ home'.description = home.description
          /\ home'.language = home.language
          /\ home'.mode = home.mode
          /\ home'.saveReview = home.saveReview ]_vars

\* The mode was changed on a page whose other inputs had been filled
C21_Witness ==
    /\ event = "handleInputModeChange"
    /\ home.inputMode = "project"
    /\ home.pastedCode = <<>>
    /\ home.files = <<>>
    /\ home.reviewName = <<"n">>
    /\ home.description = <<"d">>
    /\ home.language = "python"
    /\ home.mode = "security"
    /\ home.saveReview

----------------------------------------------------------------------------
(* Properties of the totals and the toasts of the upload component *)

\* (totalSize / (1024 * 1024)).toFixed(2), in hundredths of a MB
ShownSize(bytes) ==
    (bytes \div (1024 * 1024)) * 100
    + ((bytes % (1024 * 1024)) * 100 + 512 * 1024) \div (1024 * 1024)

\* C24: the total size the component shows is the sum of the sizes of the
\* selected files (it is shown while files are selected).
C24_TotalIsSum ==
    Len(selectedFiles) > 0 => ShownSize(totalSize) = ShownSize(SizeSum(selectedFiles))

\* C25: a batch in which a file was refused for its size or for the total
\* shows exactly one size-limit error toast, and no file over 5 MiB is selected.
C25_OneSizeToast ==
    batchErrors.hasShownSizeError =>
        /\ Len(batchErrors.toasts) = 1
        /\ \A i \in 1..Len(selectedFiles) : selectedFiles[i].content.size <= 5 * 1024 * 1024

\* The files of the last batch: every file of the tree, and only the files
\* dropped themselves when the component takes no directories
BatchFiles ==
    IF offered.via = "drop" /\ ~allowDirectories
    THEN {offered.entries[i] : i \in {i \in 1..Len(offered.entries) : offered.entries[i].isFile}}
    ELSE {offered.files[i] : i \in 1..Len(offered.files)}

ValidFiles ==
    {f \in BatchFiles :
        /\ HasAcceptedExtension(f)
        /\ ~InExcludedDir(f)
        /\ f.size <= 5 * 1024 * 1024}

RECURSIVE SumOfSizes(_)
SumOfSizes(files) ==
    IF files = {} THEN 0
    ELSE LET f == CHOOSE f \in files : TRUE IN f.size + SumOfSizes(files \ {f})

JustIngested == offered.via # "none" /\ uploadToast # NoToast

\* C23: when handleFiles completes, the files selected and delivered to the
\* page are exactly the valid files of that batch (a batch whose valid files
\* fit the total limit), whatever was selected before; with no valid file the
\* selection and the delivered list are empty.
C23_BatchReplacesSelection ==
    (JustIngested /\ SumOfSizes(ValidFiles) <= 50 * 1024 * 1024) =>
        /\ selectedFiles = delivered
        /\ {delivered[i].content : i \in 1..Len(delivered)} = ValidFiles
        /\ Len(delivered) = Cardinality(ValidFiles)

----------------------------------------------------------------------------
(* Properties of the page with its upload component *)

\* C22: after a change of the input mode the file list of the page stays
\* empty until an ingestion is started in the new mode, even when a batch was
\* still being read at the change.
C22_NoStaleBatch ==
    sinceSwitch = "switched" => home.files = <<>>

----------------------------------------------------------------------------
(* Properties of extractCodeFromMarkdown and of the list of reviews *)

\* C26: extractCodeFromMarkdown returns the trimmed contents of a fenced
\* block of the suggestion when it has one and null when it has none, never
\* text that lies between or outside the blocks.
C26_ExtractsBlockOnly ==
    (extracted # NotParsed /\ WellFenced) =>
        IF Len(BlockCodes) = 0
        THEN extracted.isNull
        ELSE /\ ~extracted.isNull
             /\ \E i \in 1..Len(BlockCodes) : extracted.code = BlockCodes[i]

\* C27: GET /api/reviews answers with every stored review, each with its
\* files and its results, the newer before the older.
C27_ListNewestFirst ==
    (req.variant = "list" /\ resp.status = 200) =>
        LET list == resp.body.value IN
        /\ Len(list) = Cardinality(reviews)
        /\ \A r \in reviews :
              \E i \in 1..Len(list) :
                  /\ list[i].review = r
                  /\ list[i].files = {f \in reviewFiles : f.reviewId = r.id}
                  /\ list[i].results = {x \in reviewResults : x.reviewId = r.id}
        /\ \A i, j \in 1..Len(list) :
              i < j => list[i].review.createdAt >= list[j].review.createdAt

\* Two reviews are listed, the second saved first
C27_Witness ==
    /\ req.variant = "list"
    /\ resp.status = 200
    /\ Len(resp.body.value) = 2
    /\ resp.body.value[1].review.id = 2
    /\ resp.body.value[2].review.id = 1
    /\ resp.body.value[1].review.createdAt > resp.body.value[2].review.createdAt
    /\ Cardinality(resp.body.value[1].results) = 1

====
